---- MODULE Spec2Model ----
(***************************************************************************)
(* Model of h1st_contrib/pmfp/models/oracle/__init__.py: the Fault         *)
(* Prediction Oracle (teacher + student + ensemble) and its Modeler.       *)
(*                                                                         *)
(* Python strings are sequences of one-character strings, so that          *)
(* str.split is computed rather than assumed.  Calls into code outside     *)
(* the file (teacher, student, ensemble, registries) are inputs: what      *)
(* each returns, or that it raises, is drawn from a small set.  Every      *)
(* method records the calls it made, in order, in op.calls.                *)
(***************************************************************************)
EXTENDS Naturals, Sequences, FiniteSets

VARIABLES
    modeler,          \* the FaultPredOracleModeler instance, or NoModeler
    oracles,          \* the FaultPredOracle instances the caller holds
    ensState,         \* heap: the mutable state of each Ensemble instance
    studentVersions,  \* what TimeSeriesDLFaultPredStudent.list_versions() returns
    op                \* the outcome of the call in progress, or Idle

vars == <<modeler, oracles, ensState, studentVersions, op>>

----------------------------------------------------------------------------
(* Bounds *)

MaxLen == 2        \* longest teacher class / teacher version / student name
MaxRawLen == 3     \* longest version string that was not composed
MaxListed == 2     \* longest list the student registry returns
MaxRows == 2       \* row labels of a batch
MaxOracles == 2    \* oracle instances alive at once

----------------------------------------------------------------------------
(* Values *)

Chars == {"a", "-"}

StrUpTo(n) == UNION {[1..k -> Chars] : k \in 0..n}

Sep3 == <<"-", "-", "-">>

Sep2 == <<"-", "-">>

Raise == [kind |-> "raise"]

Ret(v) == [kind |-> "ret", val |-> v]

None == [kind |-> "None"]

Idle == [name |-> "idle"]

Call(callee, args, out) == [callee |-> callee, args |-> args, out |-> out]

\* a call that ended with an exception: no value is returned
Raised(name, args, calls, exc) ==
    [name |-> name, args |-> args, calls |-> calls,
     status |-> exc, result |-> None]

\* a call that returned
Returned(name, args, calls, result) ==
    [name |-> name, args |-> args, calls |-> calls,
     status |-> "ok", result |-> result]

----------------------------------------------------------------------------
(* str.split(sep): the leftmost, non-overlapping occurrences of sep *)

\* the least j >= i at which sep occurs in s, or 0
RECURSIVE find(_, _, _)
find(s, sep, i) ==
    IF i + Len(sep) - 1 > Len(s) THEN 0
    ELSE IF SubSeq(s, i, i + Len(sep) - 1) = sep THEN i
    ELSE find(s, sep, i + 1)

RECURSIVE split(_, _)
split(s, sep) ==
    LET j == find(s, sep, 1)
    IN  IF j = 0 THEN <<s>>
        ELSE <<SubSeq(s, 1, j - 1)>>
                 \o split(SubSeq(s, j + Len(sep), Len(s)), sep)

\* how a version identifier is composed from its three parts
Compose(teacher_class, teacher_version, student_name) ==
    teacher_class \o Sep2 \o teacher_version \o Sep3 \o student_name

----------------------------------------------------------------------------
(* Code outside the file, reached by name: what it is given and what it    *)
(* gives back.  The *env arguments are the outcome the callee chose.        *)

GeneralTypes == {"g1", "g2"}

UniqueTypeGroups == {"u1", "u2"}

DateRanges == {<<"d1", "d2">>, <<"d3", "d4">>}

\* the names bound in the ai.models registry
ai_models == {<<"a">>, <<"a", "a">>}

\* getattr(ai.models, name): AttributeError when the name is not bound
getattr_ai_models(name) ==
    IF name \in ai_models THEN Ret([kind |-> "class", name |-> name])
    ELSE Raise

\* what a teacher class's load may do: raise, or give a teacher of some type
TeacherEnv ==
    {Raise} \cup {Ret([general_type |-> g, unique_type_group |-> u]) :
                     g \in GeneralTypes, u \in UniqueTypeGroups}

teacher_class_load(class, version, tenv) ==
    IF tenv.kind = "raise" THEN Raise
    ELSE Ret([kind |-> "teacher", class |-> class.name, version |-> version,
              general_type |-> tenv.val.general_type,
              unique_type_group |-> tenv.val.unique_type_group])

\* the version a student reports when its load did not keep the requested one
ResolvedVersion(version) == <<"a">> \o version

\* what the student's load may do: raise, or give a student whose version
\* is the requested one or another one
StudentEnv == {Raise} \cup {Ret([preserves |-> b]) : b \in BOOLEAN}

TimeSeriesDLFaultPredStudent_load(version, senv) ==
    IF senv.kind = "raise" THEN Raise
    ELSE Ret([kind |-> "student",
              version |-> IF senv.val.preserves THEN version
                          ELSE ResolvedVersion(version),
              tuned |-> <<>>])

\* BaseFaultPredictor.__init__ keeps the three keyword arguments it is given
BaseFaultPredictor_init(general_type, unique_type_group, version) ==
    [general_type |-> general_type,
     unique_type_group |-> unique_type_group,
     version |-> version]

----------------------------------------------------------------------------
(* FaultPredOracle.__init__ *)

\* an argument the caller left out
NoArg == [kind |-> "noarg"]

EnsembleRef(id) == [kind |-> "ensemble", id |-> id]

\* the id a newly created Ensemble instance gets
NewInstanceId == Len(oracles) + 1

\* mutant: the default ensemble is created anew at each call
PerCallEnsemble == NewInstanceId

\* the UnanimousFaultPredEnsemble() of the signature: evaluated once, when
\* the def statement runs, and bound as the parameter's default
DefaultEnsemble == 0

\* mutant: the oracle's version is taken from the teacher
FaultPredOracle_init_TeacherVersion(teacher, student, ensemble) ==
    LET base == BaseFaultPredictor_init(teacher.general_type,
                                        teacher.unique_type_group,
                                        teacher.version)
    IN  [kind |-> "oracle",
         general_type |-> base.general_type,
         unique_type_group |-> base.unique_type_group,
         version |-> base.version,
         teacher |-> teacher,
         student |-> student,
         ensemble |-> IF ensemble.kind = "noarg" THEN DefaultEnsemble
                      ELSE ensemble.id,
         explicit |-> ensemble.kind # "noarg"]

\* explicit is a ghost field: whether the caller passed an ensemble
FaultPredOracle_init(teacher, student, ensemble) ==
    LET base == BaseFaultPredictor_init(teacher.general_type,
                                        teacher.unique_type_group,
                                        student.version)
    IN  [kind |-> "oracle",
         general_type |-> base.general_type,
         unique_type_group |-> base.unique_type_group,
         version |-> base.version,
         teacher |-> teacher,
         student |-> student,
         ensemble |-> IF ensemble.kind = "noarg" THEN DefaultEnsemble
                      ELSE ensemble.id,
         explicit |-> ensemble.kind # "noarg"]

----------------------------------------------------------------------------
(* FaultPredOracle.load *)

\* mutant: the student is loaded by the student part of the identifier
load_StudentByName(version, tenv, senv) ==
    LET args == <<version>>
        parts == split(version, Sep3)
    IN  IF Len(parts) # 2 THEN Raised("load", args, <<>>, "ValueError")
        ELSE
        LET tparts == split(parts[1], Sep2)
        IN  IF Len(tparts) # 2 THEN Raised("load", args, <<>>, "ValueError")
            ELSE
            LET c1 == Call("getattr", <<tparts[1]>>,
                           getattr_ai_models(tparts[1]))
            IN  IF c1.out.kind = "raise"
                THEN Raised("load", args, <<c1>>, "AttributeError")
                ELSE
                LET c2 == Call("teacher_class.load", <<tparts[1], tparts[2]>>,
                               teacher_class_load(c1.out.val, tparts[2], tenv))
                IN  IF c2.out.kind = "raise"
                    THEN Raised("load", args, <<c1, c2>>, "TeacherLoadError")
                    ELSE
                    LET c3 == Call("TimeSeriesDLFaultPredStudent.load",
                                   <<parts[2]>>,
                                   TimeSeriesDLFaultPredStudent_load(parts[2],
                                                                     senv))
                    IN  IF c3.out.kind = "raise"
                        THEN Raised("load", args, <<c1, c2, c3>>,
                                    "StudentLoadError")
                        ELSE Returned("load", args, <<c1, c2, c3>>,
                                      FaultPredOracle_init(c2.out.val,
                                                           c3.out.val, NoArg))

\* mutant: the student is loaded before the identifier is taken apart
load_StudentFirst(version, tenv, senv) ==
    LET args == <<version>>
        c3 == Call("TimeSeriesDLFaultPredStudent.load", <<version>>,
                   TimeSeriesDLFaultPredStudent_load(version, senv))
        parts == split(version, Sep3)
    IN  IF c3.out.kind = "raise"
        THEN Raised("load", args, <<c3>>, "StudentLoadError")
        ELSE IF Len(parts) # 2
        THEN Raised("load", args, <<c3>>, "ValueError")
        ELSE
        LET tparts == split(parts[1], Sep2)
        IN  IF Len(tparts) # 2
            THEN Raised("load", args, <<c3>>, "ValueError")
            ELSE
            LET c1 == Call("getattr", <<tparts[1]>>,
                           getattr_ai_models(tparts[1]))
            IN  IF c1.out.kind = "raise"
                THEN Raised("load", args, <<c3, c1>>, "AttributeError")
                ELSE
                LET c2 == Call("teacher_class.load", <<tparts[1], tparts[2]>>,
                               teacher_class_load(c1.out.val, tparts[2], tenv))
                IN  IF c2.out.kind = "raise"
                    THEN Raised("load", args, <<c3, c1, c2>>,
                                "TeacherLoadError")
                    ELSE Returned("load", args, <<c3, c1, c2>>,
                                  FaultPredOracle_init(c2.out.val,
                                                       c3.out.val, NoArg))

\* version.split('---') and teacher_name.split('--') are unpacked into two
\* names each: any other number of parts is a ValueError
load(version, tenv, senv) ==
    LET args == <<version>>
        parts == split(version, Sep3)
    IN  IF Len(parts) # 2 THEN Raised("load", args, <<>>, "ValueError")
        ELSE
        LET teacher_name == parts[1]
            tparts == split(teacher_name, Sep2)
        IN  IF Len(tparts) # 2 THEN Raised("load", args, <<>>, "ValueError")
            ELSE
            LET teacher_class_name == tparts[1]
                teacher_version == tparts[2]
                c1 == Call("getattr", <<teacher_class_name>>,
                           getattr_ai_models(teacher_class_name))
            IN  IF c1.out.kind = "raise"
                THEN Raised("load", args, <<c1>>, "AttributeError")
                ELSE
                LET c2 == Call("teacher_class.load",
                               <<teacher_class_name, teacher_version>>,
                               teacher_class_load(c1.out.val, teacher_version,
                                                  tenv))
                IN  IF c2.out.kind = "raise"
                    THEN Raised("load", args, <<c1, c2>>, "TeacherLoadError")
                    ELSE
                    LET c3 == Call("TimeSeriesDLFaultPredStudent.load",
                                   <<version>>,
                                   TimeSeriesDLFaultPredStudent_load(version,
                                                                     senv))
                    IN  IF c3.out.kind = "raise"
                        THEN Raised("load", args, <<c1, c2, c3>>,
                                    "StudentLoadError")
                        ELSE Returned("load", args, <<c1, c2, c3>>,
                                      FaultPredOracle_init(c2.out.val,
                                                           c3.out.val, NoArg))

----------------------------------------------------------------------------
(* Actions of the load specification *)

NoModeler == [kind |-> "nomodeler"]

EnsIds == 0..MaxOracles

EnsembleStates == {"s0", "s1"}

\* the caller has taken the outcome of the call
Return ==
    /\ op.name # "idle"
    /\ op' = Idle
    /\ UNCHANGED <<modeler, oracles, ensState, studentVersions>>

\* FaultPredOracle.load(version), on an identifier composed from three
\* parts or on any other string; parts is a ghost field
Load ==
    /\ op.name = "idle"
    /\ \E tenv \in TeacherEnv, senv \in StudentEnv :
         \/ \E c \in StrUpTo(MaxLen), v \in StrUpTo(MaxLen),
               s \in StrUpTo(MaxLen) :
              op' = [load(Compose(c, v, s), tenv, senv) EXCEPT
                        !.args = <<Compose(c, v, s), <<c, v, s>>>>]
         \/ \E version \in StrUpTo(MaxRawLen) :
              op' = [load(version, tenv, senv) EXCEPT
                        !.args = <<version, <<>>>>]
    /\ UNCHANGED <<modeler, oracles, ensState, studentVersions>>

\* version identifiers the student registry may hold: one that load can
\* take apart, one that it cannot
KnownVersions == {Compose(<<"a">>, <<"a">>, <<"a">>), <<"a">>}

VersionLists == UNION {[1..n -> KnownVersions] : n \in 0..MaxListed}

\* what the student's list_versions may do: raise, or give the list
ListEnv == {Raise, Ret(studentVersions)}

\* mutant: only the identifiers of the shape load takes apart are listed
list_versions_OnlyLoadable(lenv) ==
    LET c1 == Call("TimeSeriesDLFaultPredStudent.list_versions", <<>>, lenv)
        Shaped(v) == /\ Len(split(v, Sep3)) = 2
                     /\ Len(split(split(v, Sep3)[1], Sep2)) = 2
    IN  IF c1.out.kind = "raise"
        THEN Raised("list_versions", <<>>, <<c1>>, "ListError")
        ELSE Returned("list_versions", <<>>, <<c1>>,
                      SelectSeq(c1.out.val, Shaped))

list_versions(lenv) ==
    LET c1 == Call("TimeSeriesDLFaultPredStudent.list_versions", <<>>, lenv)
    IN  IF c1.out.kind = "raise"
        THEN Raised("list_versions", <<>>, <<c1>>, "ListError")
        ELSE Returned("list_versions", <<>>, <<c1>>, c1.out.val)

\* FaultPredOracle.list_versions()
ListVersions ==
    /\ op.name = "idle"
    /\ \E lenv \in ListEnv : op' = list_versions(lenv)
    /\ UNCHANGED <<modeler, oracles, ensState, studentVersions>>

\* no modeler, no oracle yet; the student registry holds some versions
Init ==
    /\ modeler = NoModeler
    /\ oracles = <<>>
    /\ ensState = [e \in EnsIds |-> "s0"]
    /\ studentVersions \in VersionLists
    /\ op = Idle

Next == Load \/ ListVersions \/ Return

Spec == Init /\ [][Next]_vars

----------------------------------------------------------------------------
(* Claims about load *)

HasSub(s, sep) == find(s, sep, 1) # 0

StartsWithDash(s) == Len(s) > 0 /\ s[1] = "-"

EndsWithDash(s) == Len(s) > 0 /\ s[Len(s)] = "-"

\* the parts an identifier can be taken apart into again
Separable(c, v, s) ==
    /\ ~HasSub(c, Sep2) /\ ~EndsWithDash(c)
    /\ Len(v) > 0 /\ ~HasSub(v, Sep2)
    /\ ~StartsWithDash(v) /\ ~EndsWithDash(v)
    /\ ~HasSub(s, Sep3)

\* the calls load made are those the parts c, v, s ask for
LoadsAsComposed(c, v, s) ==
    LET n == Len(op.calls)
    IN  /\ op.status # "ValueError"
        /\ n >= 1
        /\ op.calls[1].callee = "getattr"
        /\ op.calls[1].args = <<c>>
        /\ op.calls[1].out.kind = "ret" => n >= 2
        /\ n >= 2 =>
             /\ op.calls[2].callee = "teacher_class.load"
             /\ op.calls[2].args = <<c, v>>
             /\ op.calls[2].out.kind = "ret" => n = 3
        /\ n >= 3 =>
             /\ op.calls[3].callee = "TimeSeriesDLFaultPredStudent.load"
             /\ op.calls[3].args = <<Compose(c, v, s)>>
             /\ op.calls[3].out.kind = "ret" => op.status = "ok"
        /\ op.status = "ok" =>
             /\ n = 3
             /\ op.result.kind = "oracle"
             /\ op.result.teacher = op.calls[2].out.val
             /\ op.result.student = op.calls[3].out.val

IsComposedLoad == op.name = "load" /\ Len(op.args[2]) = 3

\* C4 as stated: for every teacher_class, teacher_version and student_name,
\* load on the identifier composed from them resolves teacher_class, loads
\* the teacher with teacher_version and the student with the whole
\* identifier, and returns an oracle of that teacher and that student.
C4_AnyParts ==
    IsComposedLoad =>
        LoadsAsComposed(op.args[2][1], op.args[2][2], op.args[2][3])

\* C4 as amended: the same, for the parts that can be taken apart again:
\* teacher_class has no "--" and does not end in "-", teacher_version is
\* not empty, has no "--" and neither starts nor ends in "-", and
\* student_name has no "---".
C4_SeparableParts ==
    (IsComposedLoad
        /\ Separable(op.args[2][1], op.args[2][2], op.args[2][3])) =>
        LoadsAsComposed(op.args[2][1], op.args[2][2], op.args[2][3])

\* a load that returned an oracle, on separable parts of which the student
\* name starts with a dash
C4_Witness ==
    /\ IsComposedLoad
    /\ Separable(op.args[2][1], op.args[2][2], op.args[2][3])
    /\ StartsWithDash(op.args[2][3])
    /\ op.status = "ok"

CalledStudentLoad ==
    \E k \in 1..Len(op.calls) :
        op.calls[k].callee = "TimeSeriesDLFaultPredStudent.load"

CallRaised(callee) ==
    \E k \in 1..Len(op.calls) :
        op.calls[k].callee = callee /\ op.calls[k].out.kind = "raise"

\* the identifier's teacher part cannot be had: a split that does not give
\* two parts, or a class name the registry does not bind
TeacherPartFails(version) ==
    LET parts == split(version, Sep3)
    IN  \/ Len(parts) # 2
        \/ Len(split(parts[1], Sep2)) # 2
        \/ split(parts[1], Sep2)[1] \notin ai_models

\* C7: a load whose identifier does not split in two on "---", or whose
\* teacher part does not split in two on "--", or whose teacher class is
\* not in the registry, or whose teacher load fails, fails without
\* attempting the student load and without an oracle; a load whose student
\* load fails, fails without an oracle.
C7_LoadFailuresPropagate ==
    op.name = "load" =>
        /\ (TeacherPartFails(op.args[1]) \/ CallRaised("teacher_class.load"))
              => /\ op.status # "ok"
                 /\ op.result = None
                 /\ ~CalledStudentLoad
        /\ CallRaised("TimeSeriesDLFaultPredStudent.load")
              => /\ op.status # "ok"
                 /\ op.result = None

\* a load whose teacher load failed
C7_Witness ==
    /\ op.name = "load"
    /\ CallRaised("teacher_class.load")
    /\ op.status = "TeacherLoadError"

\* C5: list_versions returns the list the student's list_versions returns,
\* every entry, in the same order, whether or not load can take it apart.
C5_ListVersionsUnfiltered ==
    (op.name = "list_versions" /\ op.status = "ok") =>
        /\ op.result = studentVersions
        /\ op.calls =
               <<Call("TimeSeriesDLFaultPredStudent.list_versions", <<>>,
                      Ret(studentVersions))>>

\* a returned list with an entry on which every load fails
C5_Witness ==
    /\ op.name = "list_versions"
    /\ op.status = "ok"
    /\ \E k \in 1..Len(op.result) :
          /\ TeacherPartFails(op.result[k])
          /\ \A tenv \in TeacherEnv, senv \in StudentEnv :
                load(op.result[k], tenv, senv).status # "ok"

----------------------------------------------------------------------------
(* FaultPredOracleModeler *)

\* teachers and students the caller can have at hand
TeacherPool ==
    {[kind |-> "teacher", class |-> <<"a">>, version |-> <<"a">>,
      general_type |-> "g1", unique_type_group |-> "u1"],
     [kind |-> "teacher", class |-> <<"a", "a">>, version |-> <<"a">>,
      general_type |-> "g2", unique_type_group |-> "u2"]}

\* a student trained from a teacher, named after it
StudentOf(teacher) ==
    [kind |-> "student",
     version |-> Compose(teacher.class, teacher.version, <<"a">>),
     tuned |-> <<>>]

CatColSets == {<<"c1">>, <<"c1", "c2">>}

NumColSets == {<<"n1">>, <<"n1", "n2">>}

SubsamplingFactors == {1, 2}

FaultPredOracleModeler_init(teacher, student_input_cat_cols, student_input_num_cols, student_input_subsampling_factor, student_train_date_range, student_tuning_date_range) ==
    [kind |-> "modeler",
     teacher |-> teacher,
     student_input_cat_cols |-> student_input_cat_cols,
     student_input_num_cols |-> student_input_num_cols,
     student_input_subsampling_factor |-> student_input_subsampling_factor,
     student_train_date_range |-> student_train_date_range,
     student_tuning_date_range |-> student_tuning_date_range]

\* what the student modeler's build_model may do: raise, or give a student
BuildEnv ==
    {Raise} \cup {Ret([kind |-> "student", version |-> v, tuned |-> <<>>]) :
                     v \in {<<"a">>, <<"a", "a">>}}

\* what tune_decision_threshold may do: raise, or return
TuneEnv == {Raise, Ret(None)}

\* the outcome of build_model, with the local variable student as it is
\* when the method ends
BuildOutcome(self, calls, status, result, student) ==
    [name |-> "build_model", args |-> <<self>>, calls |-> calls,
     status |-> status, result |-> result, student |-> student]

StudentModelerCall(self, date_range, benv) ==
    Call("TimeSeriesDLFaultPredStudentModeler.build_model",
         [teacher |-> self.teacher,
          input_cat_cols |-> self.student_input_cat_cols,
          input_num_cols |-> self.student_input_num_cols,
          input_subsampling_factor |-> self.student_input_subsampling_factor,
          date_range |-> date_range],
         benv)

\* tune_decision_threshold changes the student it is called on
Tuned(student, tuning_date_range) ==
    [student EXCEPT !.tuned = Append(@, tuning_date_range)]

\* mutant: the threshold is tuned on the training date range
build_model_TuneOnTrainRange(self, benv, tunv) ==
    LET c1 == StudentModelerCall(self, self.student_train_date_range, benv)
    IN  IF c1.out.kind = "raise"
        THEN BuildOutcome(self, <<c1>>, "StudentBuildError", None, None)
        ELSE
        LET student == c1.out.val
            c2 == Call("student.tune_decision_threshold",
                       [student |-> student,
                        tuning_date_range |-> self.student_train_date_range],
                       tunv)
        IN  IF c2.out.kind = "raise"
            THEN BuildOutcome(self, <<c1, c2>>, "TuneError", None, student)
            ELSE BuildOutcome(self, <<c1, c2>>, "ok", None,
                              Tuned(student, self.student_train_date_range))

\* the method ends after the tuning, with no return statement: its value
\* is None
build_model(self, benv, tunv) ==
    LET c1 == StudentModelerCall(self, self.student_train_date_range, benv)
    IN  IF c1.out.kind = "raise"
        THEN BuildOutcome(self, <<c1>>, "StudentBuildError", None, None)
        ELSE
        LET student == c1.out.val
            c2 == Call("student.tune_decision_threshold",
                       [student |-> student,
                        tuning_date_range |-> self.student_tuning_date_range],
                       tunv)
        IN  IF c2.out.kind = "raise"
            THEN BuildOutcome(self, <<c1, c2>>, "TuneError", None, student)
            ELSE BuildOutcome(self, <<c1, c2>>, "ok", None,
                              Tuned(student, self.student_tuning_date_range))

\* FaultPredOracleModeler(...)
NewModeler ==
    /\ op.name = "idle"
    /\ modeler.kind = "nomodeler"
    /\ \E teacher \in TeacherPool, cat \in CatColSets, num \in NumColSets,
          sub \in SubsamplingFactors, train \in DateRanges,
          tuning \in DateRanges :
         modeler' = FaultPredOracleModeler_init(teacher, cat, num, sub,
                                                train, tuning)
    /\ UNCHANGED <<oracles, ensState, studentVersions, op>>

\* modeler.build_model()
BuildModel ==
    /\ op.name = "idle"
    /\ modeler.kind = "modeler"
    /\ \E benv \in BuildEnv, tunv \in TuneEnv :
         op' = build_model(modeler, benv, tunv)
    /\ UNCHANGED <<modeler, oracles, ensState, studentVersions>>

NextModeler == NewModeler \/ BuildModel \/ Return

InitModeler == Init /\ studentVersions = <<>>

SpecModeler == InitModeler /\ [][NextModeler]_vars

\* C1: a build_model that succeeds returns an oracle whose teacher is the
\* modeler's teacher and whose student is the student it trained and tuned.
C1_BuildModelReturnsOracle ==
    (op.name = "build_model" /\ op.status = "ok") =>
        /\ op.result.kind = "oracle"
        /\ op.result.teacher = modeler.teacher
        /\ op.result.student = op.student

IsTune(c) == c.callee = "student.tune_decision_threshold"

\* C6: build_model first has the student built from the modeler's teacher,
\* input columns, subsampling factor and training date range; only when
\* that has returned it calls tune_decision_threshold, once, on that
\* student, with the modeler's tuning date range; when the build fails
\* there is no tuning.
C6_TrainThenTuneOnce ==
    op.name = "build_model" =>
        /\ Len(op.calls) >= 1
        /\ op.calls[1] =
               StudentModelerCall(modeler, modeler.student_train_date_range,
                                  op.calls[1].out)
        /\ op.calls[1].out.kind = "raise" =>
               /\ Len(op.calls) = 1
               /\ op.status # "ok"
        /\ op.calls[1].out.kind = "ret" =>
               /\ Len(op.calls) = 2
               /\ IsTune(op.calls[2])
               /\ op.calls[2].args.student = op.calls[1].out.val
               /\ op.calls[2].args.tuning_date_range =
                      modeler.student_tuning_date_range
        /\ Cardinality({k \in 1..Len(op.calls) : IsTune(op.calls[k])}) <= 1

\* a build_model that trained and tuned, with a tuning date range that is
\* not the training date range
C6_Witness ==
    /\ op.name = "build_model"
    /\ op.status = "ok"
    /\ modeler.student_tuning_date_range # modeler.student_train_date_range
    /\ op.student.tuned = <<modeler.student_tuning_date_range>>

----------------------------------------------------------------------------
(* FaultPredOracle.predict and FaultPredOracle.batch_predict *)

DataFrames == {"df1", "df2"}

S3ParquetDataFeeders == {"s3"}

\* what a predict of the teacher, the student or the ensemble may do
PredEnv == {Raise} \cup {Ret(b) : b \in BOOLEAN}

RowIdx == 1..MaxRows

\* a pandas Series: its rows in order, each a label and a value; the
\* Series here have no label twice
IsSeries(rows) ==
    \A j \in 1..Len(rows), k \in 1..Len(rows) :
        rows[j].idx = rows[k].idx => j = k

SeriesOfLen(n) ==
    {rows \in [1..n -> [idx : RowIdx, val : BOOLEAN]] : IsSeries(rows)}

AllSeries == UNION {SeriesOfLen(n) : n \in 0..MaxRows}

\* what a batch_predict of the teacher, the student or the ensemble may do
BatchEnv == {Raise} \cup {Ret(rows) : rows \in AllSeries}

\* the outcome of a method of an oracle: self is the oracle as the method
\* leaves it
OracleOutcome(name, self, args, calls, status, result) ==
    [name |-> name, args |-> args, calls |-> calls,
     status |-> status, result |-> result, self |-> self]

TeacherPredict(self, df, tenv) ==
    Call("teacher.predict", [self |-> self.teacher, df |-> df], tenv)

StudentPredict(self, df, senv) ==
    Call("student.predict",
         [self |-> self.student, df |-> df, return_binary |-> TRUE], senv)

EnsemblePredict(self, teacher_pred, student_pred, eenv) ==
    Call("ensemble.predict",
         [self |-> self.ensemble, teacher_pred |-> teacher_pred,
          student_pred |-> student_pred], eenv)

\* mutant: the ensemble is given the two predictions the wrong way round
predict_SwappedPreds(self, df, tenv, senv, eenv) ==
    LET c1 == TeacherPredict(self, df, tenv)
    IN  IF c1.out.kind = "raise"
        THEN OracleOutcome("predict", self, <<self, df>>, <<c1>>,
                           "TeacherError", None)
        ELSE
        LET c2 == StudentPredict(self, df, senv)
        IN  IF c2.out.kind = "raise"
            THEN OracleOutcome("predict", self, <<self, df>>, <<c1, c2>>,
                               "StudentError", None)
            ELSE
            LET c3 == EnsemblePredict(self, c2.out.val, c1.out.val, eenv)
            IN  IF c3.out.kind = "raise"
                THEN OracleOutcome("predict", self, <<self, df>>,
                                   <<c1, c2, c3>>, "EnsembleError", None)
                ELSE OracleOutcome("predict", self, <<self, df>>,
                                   <<c1, c2, c3>>, "ok",
                                   <<c1.out.val, c2.out.val, c3.out.val>>)

\* mutant: a student that fails is left out: the ensemble is asked with the
\* teacher's prediction for both, and the oracle drops the student
predict_WithoutStudent(self, df, tenv, senv, eenv) ==
    LET c1 == TeacherPredict(self, df, tenv)
    IN  IF c1.out.kind = "raise"
        THEN OracleOutcome("predict", self, <<self, df>>, <<c1>>,
                           "TeacherError", None)
        ELSE
        LET c2 == StudentPredict(self, df, senv)
            student_pred == IF c2.out.kind = "raise" THEN c1.out.val
                            ELSE c2.out.val
            after == IF c2.out.kind = "raise"
                     THEN [self EXCEPT !.student = None]
                     ELSE self
            c3 == EnsemblePredict(self, c1.out.val, student_pred, eenv)
        IN  IF c3.out.kind = "raise"
            THEN OracleOutcome("predict", after, <<self, df>>,
                               <<c1, c2, c3>>, "EnsembleError", None)
            ELSE OracleOutcome("predict", after, <<self, df>>,
                               <<c1, c2, c3>>, "ok",
                               <<c1.out.val, student_pred, c3.out.val>>)

\* the elements of the returned tuple are evaluated left to right; the
\* first exception ends the method
predict(self, df, tenv, senv, eenv) ==
    LET c1 == TeacherPredict(self, df, tenv)
    IN  IF c1.out.kind = "raise"
        THEN OracleOutcome("predict", self, <<self, df>>, <<c1>>,
                           "TeacherError", None)
        ELSE
        LET teacher_pred == c1.out.val
            c2 == StudentPredict(self, df, senv)
        IN  IF c2.out.kind = "raise"
            THEN OracleOutcome("predict", self, <<self, df>>, <<c1, c2>>,
                               "StudentError", None)
            ELSE
            LET student_pred == c2.out.val
                c3 == EnsemblePredict(self, teacher_pred, student_pred, eenv)
            IN  IF c3.out.kind = "raise"
                THEN OracleOutcome("predict", self, <<self, df>>,
                                   <<c1, c2, c3>>, "EnsembleError", None)
                ELSE OracleOutcome("predict", self, <<self, df>>,
                                   <<c1, c2, c3>>, "ok",
                                   <<teacher_pred, student_pred, c3.out.val>>)

Min(a, b) == IF a <= b THEN a ELSE b

\* zip(a, b, c) of three Series: their values, position by position, as
\* far as the shortest goes
zip(a, b, c) ==
    [k \in 1..Min(Len(a), Min(Len(b), Len(c))) |->
        <<a[k].val, b[k].val, c[k].val>>]

\* Series(data=..., index=...): the k-th value under the k-th label.  Data
\* of another length than the index is a ValueError; only data of length 1
\* is, by the pandas releases that still repeat a single value, spread over
\* the index (repeats says which pandas is installed).
NewSeries(data, index, repeats) ==
    IF Len(data) = Len(index)
    THEN Ret([k \in 1..Len(index) |-> [idx |-> index[k], val |-> data[k]]])
    ELSE IF Len(data) = 1 /\ repeats
    THEN Ret([k \in 1..Len(index) |-> [idx |-> index[k], val |-> data[1]]])
    ELSE Raise

IndexOf(rows) == [k \in 1..Len(rows) |-> rows[k].idx]

batch_predict(self, s3_parquet_df, tenv, senv, eenv, repeats) ==
    LET c1 == Call("teacher.batch_predict",
                   [self |-> self.teacher, s3_parquet_df |-> s3_parquet_df],
                   tenv)
    IN  IF c1.out.kind = "raise"
        THEN OracleOutcome("batch_predict", self, <<self, s3_parquet_df>>,
                           <<c1>>, "TeacherError", None)
        ELSE
        LET teacher_preds == c1.out.val
            c2 == Call("student.batch_predict",
                       [self |-> self.student,
                        s3_parquet_df |-> s3_parquet_df,
                        return_binary |-> TRUE],
                       senv)
        IN  IF c2.out.kind = "raise"
            THEN OracleOutcome("batch_predict", self, <<self, s3_parquet_df>>,
                               <<c1, c2>>, "StudentError", None)
            ELSE
            LET student_preds == c2.out.val
                c3 == Call("ensemble.batch_predict",
                           [self |-> self.ensemble,
                            teacher_preds |-> teacher_preds,
                            student_preds |-> student_preds],
                           eenv)
            IN  IF c3.out.kind = "raise"
                THEN OracleOutcome("batch_predict", self,
                                   <<self, s3_parquet_df>>, <<c1, c2, c3>>,
                                   "EnsembleError", None)
                ELSE
                LET ensemble_preds == c3.out.val
                    series == NewSeries(zip(teacher_preds, student_preds,
                                            ensemble_preds),
                                        IndexOf(ensemble_preds), repeats)
                IN  IF series.kind = "raise"
                    THEN OracleOutcome("batch_predict", self,
                                       <<self, s3_parquet_df>>,
                                       <<c1, c2, c3>>, "ValueError", None)
                    ELSE OracleOutcome("batch_predict", self,
                                       <<self, s3_parquet_df>>,
                                       <<c1, c2, c3>>, "ok", series.val)

\* oracle.predict(df), on an oracle the caller holds
Predict ==
    /\ op.name = "idle"
    /\ \E i \in 1..Len(oracles), df \in DataFrames,
          tenv \in PredEnv, senv \in PredEnv, eenv \in PredEnv :
         LET out == predict(oracles[i], df, tenv, senv, eenv)
         IN  /\ op' = out
             /\ oracles' = [oracles EXCEPT ![i] = out.self]
    /\ UNCHANGED <<modeler, ensState, studentVersions>>

\* oracle.batch_predict(s3_parquet_df), on an oracle the caller holds
BatchPredict ==
    /\ op.name = "idle"
    /\ \E i \in 1..Len(oracles), df \in S3ParquetDataFeeders,
          tenv \in BatchEnv, senv \in BatchEnv, eenv \in BatchEnv,
          repeats \in BOOLEAN :
         LET out == batch_predict(oracles[i], df, tenv, senv, eenv, repeats)
         IN  /\ op' = out
             /\ oracles' = [oracles EXCEPT ![i] = out.self]
    /\ UNCHANGED <<modeler, ensState, studentVersions>>

\* an oracle made of a teacher and a student at hand, with the default
\* ensemble
InitPredict ==
    /\ modeler = NoModeler
    /\ \E teacher \in TeacherPool :
         oracles = <<FaultPredOracle_init(teacher, StudentOf(teacher), NoArg)>>
    /\ ensState = [e \in EnsIds |-> "s0"]
    /\ studentVersions = <<>>
    /\ op = Idle

NextPredict == Predict \/ BatchPredict \/ Return

SpecPredict == InitPredict /\ [][NextPredict]_vars

\* C2: a predict that returns, returns the triple of what teacher.predict
\* gave on the input, what student.predict gave on the same input with
\* return_binary=True, and what ensemble.predict gave on those two values.
C2_PredictTriple ==
    (op.name = "predict" /\ op.status = "ok") =>
        /\ Len(op.result) = 3
        /\ op.calls =
               <<TeacherPredict(op.args[1], op.args[2], Ret(op.result[1])),
                 StudentPredict(op.args[1], op.args[2], Ret(op.result[2])),
                 EnsemblePredict(op.args[1], op.result[1], op.result[2],
                                 Ret(op.result[3]))>>

\* a predict that returned, on which teacher and student disagree
C2_Witness ==
    /\ op.name = "predict"
    /\ op.status = "ok"
    /\ op.result[1] # op.result[2]

HasRow(rows, idx, val) ==
    \E k \in 1..Len(rows) : rows[k].idx = idx /\ rows[k].val = val

\* C3: in the Series batch_predict returns, the element at each row label
\* is the triple of the teacher's, the student's and the ensemble's
\* prediction at that label, and the labels are the ensemble's.
C3_AlignedByRowIndex ==
    (op.name = "batch_predict" /\ op.status = "ok") =>
        /\ IndexOf(op.result) = IndexOf(op.calls[3].out.val)
        /\ \A k \in 1..Len(op.result) :
              /\ HasRow(op.calls[1].out.val, op.result[k].idx,
                        op.result[k].val[1])
              /\ HasRow(op.calls[2].out.val, op.result[k].idx,
                        op.result[k].val[2])
              /\ HasRow(op.calls[3].out.val, op.result[k].idx,
                        op.result[k].val[3])

CallOrder ==
    IF op.name = "predict"
    THEN <<"teacher.predict", "student.predict", "ensemble.predict">>
    ELSE <<"teacher.batch_predict", "student.batch_predict",
           "ensemble.batch_predict">>

\* teacher, then student, then ensemble, each once, up to the first that
\* raises
DelegatesInOrder ==
    LET n == Len(op.calls)
    IN  /\ n \in 1..3
        /\ \A k \in 1..n : op.calls[k].callee = CallOrder[k]
        /\ \A k \in 1..(n - 1) : op.calls[k].out.kind = "ret"
        /\ n < 3 => op.calls[n].out.kind = "raise" /\ op.status # "ok"

\* C10: predict and batch_predict leave the oracle's teacher, student,
\* ensemble and version as they were, and call the teacher, then the
\* student, then the ensemble, each once, none after one that failed.
C10_PureDelegation ==
    op.name \in {"predict", "batch_predict"} =>
        /\ DelegatesInOrder
        /\ op.self = op.args[1]
        /\ oracles = <<op.args[1]>>

\* a predict whose student failed
C10_Witness ==
    /\ op.name = "predict"
    /\ op.status = "StudentError"
    /\ Len(op.calls) = 2

----------------------------------------------------------------------------
(* Oracles side by side: construction, load, and the ensembles they hold *)

\* the ensembles the caller can pass: a new instance, or the one an oracle
\* at hand holds
EnsembleArgs ==
    {EnsembleRef(NewInstanceId)}
        \cup {EnsembleRef(oracles[i].ensemble) : i \in 1..Len(oracles)}

\* FaultPredOracle(teacher, student) and
\* FaultPredOracle(teacher, student, ensemble)
Construct ==
    /\ op.name = "idle"
    /\ Len(oracles) < MaxOracles
    /\ \E teacher \in TeacherPool, ensemble \in {NoArg} \cup EnsembleArgs :
         LET oracle == FaultPredOracle_init(teacher, StudentOf(teacher),
                                            ensemble)
         IN  /\ oracles' = Append(oracles, oracle)
             /\ op' = Returned("FaultPredOracle",
                               <<teacher, StudentOf(teacher), ensemble>>,
                               <<>>, oracle)
    /\ UNCHANGED <<modeler, ensState, studentVersions>>

\* oracle = FaultPredOracle.load(version): the caller keeps what it returns
LoadKept ==
    /\ op.name = "idle"
    /\ Len(oracles) < MaxOracles
    /\ \E version \in KnownVersions, tenv \in TeacherEnv,
          senv \in StudentEnv :
         LET out == load(version, tenv, senv)
         IN  /\ op' = out
             /\ oracles' = IF out.status = "ok"
                           THEN Append(oracles, out.result)
                           ELSE oracles
    /\ UNCHANGED <<modeler, ensState, studentVersions>>

\* the caller changes the state of the ensemble that oracle i holds
SetEnsembleState ==
    /\ op.name = "idle"
    /\ \E i \in 1..Len(oracles), state \in EnsembleStates :
         /\ ensState' = [ensState EXCEPT ![oracles[i].ensemble] = state]
         /\ op' = [name |-> "set_ensemble_state", args |-> <<i, state>>]
    /\ UNCHANGED <<modeler, oracles, studentVersions>>

InitOracle == Init /\ studentVersions = <<>>

NextOracle == Construct \/ LoadKept \/ SetEnsembleState \/ Return

SpecOracle == InitOracle /\ [][NextOracle]_vars

\* the oracle's version is its student's, its types are its teacher's
TakesFromParts(oracle) ==
    /\ oracle.version = oracle.student.version
    /\ oracle.general_type = oracle.teacher.general_type
    /\ oracle.unique_type_group = oracle.teacher.unique_type_group

\* C8: every oracle has its student's version and its teacher's
\* general_type and unique_type_group; the version of the oracle a load
\* returns is the version of the student that load loaded, and is the
\* requested version only if that student kept the requested version.
C8_VersionFromStudent ==
    /\ \A i \in 1..Len(oracles) : TakesFromParts(oracles[i])
    /\ (op.name = "load" /\ op.status = "ok") =>
          /\ TakesFromParts(op.result)
          /\ op.result.teacher = op.calls[2].out.val
          /\ op.result.student = op.calls[3].out.val
          /\ op.result.version = op.calls[3].out.val.version
          /\ op.result.version = op.args[1] =>
                op.calls[3].out.val.version = op.args[1]

\* a load that returned an oracle whose version is not the requested one,
\* and whose teacher has another version than its student
C8_Witness ==
    /\ op.name = "load"
    /\ op.status = "ok"
    /\ op.result.version # op.args[1]
    /\ op.result.teacher.version # op.result.version
    /\ Len(oracles) = 2

\* C9: all oracles made without an ensemble argument, those load returns
\* among them, hold the same ensemble instance, so a state set through one
\* of them is the state seen through each of them; an oracle holding
\* another instance was given it.
C9_SharedDefaultEnsemble ==
    /\ \A i \in 1..Len(oracles), j \in 1..Len(oracles) :
          oracles[i].ensemble # oracles[j].ensemble =>
              oracles[i].explicit \/ oracles[j].explicit
    /\ (op.name = "load" /\ op.status = "ok") => ~op.result.explicit
    /\ (op.name = "set_ensemble_state" /\ ~oracles[op.args[1]].explicit) =>
          \A j \in 1..Len(oracles) :
              ~oracles[j].explicit =>
                  ensState[oracles[j].ensemble] = op.args[2]

\* an oracle that was constructed and one that was loaded, neither given
\* an ensemble, after the state of the ensemble was set through the first
C9_Witness ==
    /\ Len(oracles) = 2
    /\ ~oracles[1].explicit /\ ~oracles[2].explicit
    /\ oracles[1].version # oracles[2].version
    /\ op.name = "set_ensemble_state"
    /\ op.args = <<1, "s1">>
    /\ ensState[oracles[2].ensemble] = "s1"

====
